---- MODULE Spec2Model ----
(***************************************************************************)
(* Delivery Airship (AirshipsProject): the Game object of game.cpp/game.h, *)
(* the mesh helpers of model.cpp and main() as one state machine.          *)
(*                                                                         *)
(* Units.  Time is counted in 1/40 s, so the frame clamp 0.05 s is 2 and   *)
(* the modelled frame times are 0, 0.025 and 0.05 s.  Altitudes are        *)
(* counted in 1/160000 m and vertical speeds in 1/4000 m/s, which makes    *)
(* the package integration of Update exact.  Horizontal coordinates are    *)
(* counted in millimetres.  Angles that pass through WrapDeg are binary32  *)
(* values counted in 2^-16 degree, with the rounding of binary32 kept.     *)
(***************************************************************************)
EXTENDS Integers, Sequences, FiniteSets

\* ------------------------------------------------------------------ units
TicksPerSecond == 2 * 20
VScale == 4000 * TicksPerSecond
HScale == 10 * 100
DegUnit == 2 ^ 16

Abs(n) == IF n < 0 THEN -n ELSE n
Min2(a, b) == IF a < b THEN a ELSE b
Max2(a, b) == IF a > b THEN a ELSE b
\* no clamping at all
ClampOff(x, lo, hi) == x

Clamp(x, lo, hi) == Min2(Max2(x, lo), hi)

\* --------------------------------------------------- binary32 on the grid
\* A binary32 value has 24 significant bits.  Counted in 2^-16 degree every
\* integer below 2^24 is a binary32 value; above, the spacing doubles with
\* each binade.
RECURSIVE Ulp(_)
Ulp(a) == IF a < 16777216 THEN 1 ELSE 2 * Ulp(a \div 2)

\* round to nearest, ties to the even significand
RoundMag(a) ==
    LET s == Ulp(a)
        q == a \div s
        r == a % s
    IN  IF 2 * r < s THEN q * s
        ELSE IF 2 * r > s THEN (q + 1) * s
        ELSE IF q % 2 = 0 THEN q * s ELSE (q + 1) * s

RoundF(n) == IF n < 0 THEN -RoundMag(-n) ELSE RoundMag(n)

Deg(d) == d * DegUnit
Deg360 == Deg(360)

\* glm::mod(x, y) = x - y * floor(x / y), each operation rounded
GlmMod360(x) ==
    LET q == x \div Deg360
    IN  RoundF(x - RoundF(Deg360 * q))

WrapDeg(deg) ==
    LET m == GlmMod360(deg)
    IN  IF m < 0 THEN RoundF(m + Deg360) ELSE m

\* -------------------------------------------------------------- constants
fieldHalfSize == 60
airshipSpeed == 16
yawSpeedDeg == 90
maxRollDeg == 18
yawModelOffsetDeg == 180
houseCount == 20
decorCount == 30
cloudCount == 15
balloonCount == 10
poolSize == 40
maxTries == 100
Gravity100 == 981
DtClamp == TicksPerSecond \div 20
FieldClamp == (fieldHalfSize * 9 * HScale) \div 10
SampleLimit == (fieldHalfSize * 85 * HScale) \div 100
DeliveryCeiling == (3 * VScale) \div 2
DropOffset == 2 * VScale
HouseRadius == (5 * HScale) \div 2
CenterClear == 10 * HScale
HouseSpacing == 8 * HScale
FovMin == 25
FovMax == 150

White == <<10, 10, 10>>
DeliveredTint == <<7, 10, 7>>
CloudTint == <<95, 95, 100>>

LoadedModels == <<"airship", "tree", "house", "decor1", "decor2", "cloud", "balloon">>
AllModels == LoadedModels \o <<"field", "package">>
ModelNames == {AllModels[i] : i \in 1..Len(AllModels)}

\* ------------------------------------------------------------------ state
VARIABLES
    pc,             \* where main()/Run() is: init, events, update, render, exit, done
    exitCode,       \* the status main() returns; "none" while running
    windowOpen,     \* m_window.isOpen()
    gl,             \* the GL objects: next texture name, delete counts
    m_program, m_whiteTex, m_defaultNormalTex, m_airshipNormalTex,
    models,         \* the nine Model objects
    m_fovDeg, m_aimMode,
    m_time,
    m_airshipPos, m_airshipYawDeg, m_airshipRollDeg, m_cameraYawDeg,
    m_airship,      \* the airship's RenderInstance
    m_houses, m_decorations, m_clouds, m_balloons, m_packages,
    m_tree, m_field,
    drawn,          \* the draw calls of the last Render, in order
    uniforms,       \* the uniform updates of the last Render, in order
    fn              \* the mesh helper under test (model.cpp), or "idle"

simVars == <<m_time, m_airshipPos, m_airshipYawDeg, m_airshipRollDeg,
             m_cameraYawDeg, m_airship, m_tree, m_field>>
entityVars == <<m_houses, m_decorations, m_clouds, m_balloons, m_packages>>
glVars == <<gl, m_program, m_whiteTex, m_defaultNormalTex, m_airshipNormalTex, models>>
vars == <<pc, exitCode, windowOpen, glVars, m_fovDeg, m_aimMode, simVars,
          entityVars, drawn, uniforms, fn>>

\* ----------------------------------------------------------- GL objects
\* glGenTextures hands out fresh names; name 0 is "no texture".
NoGL == [nextTex |-> 1, texDeletes |-> <<>>, bufDeletes |-> [m \in ModelNames |-> 0],
         programDeletes |-> 0]

GenTexture(g) == [g EXCEPT !.nextTex = @ + 1, !.texDeletes = Append(@, 0)]

DeleteTexture(g, t) == [g EXCEPT !.texDeletes[t] = @ + 1]

RECURSIVE DeleteTextures(_, _)
DeleteTextures(g, ts) ==
    IF ts = <<>> THEN g
    ELSE DeleteTextures(IF Head(ts) # 0 THEN DeleteTexture(g, Head(ts)) ELSE g, Tail(ts))

\* ------------------------------------------------------------ mesh data
\* A Model as far as the game reads it: the vertex heights (mm), the texture
\* of each sub-mesh, the cached extent, and whether vao/vbo/ebo were made.
EmptyModel == [vao |-> FALSE, ys |-> <<>>, subMeshes |-> <<>>, minY |-> 0, maxY |-> 0]

RECURSIVE SeqMin(_)
SeqMin(q) == IF Len(q) = 1 THEN q[1] ELSE Min2(q[1], SeqMin(Tail(q)))
RECURSIVE SeqMax(_)
SeqMax(q) == IF Len(q) = 1 THEN q[1] ELSE Max2(q[1], SeqMax(Tail(q)))

\* the running minimum and maximum start from 0 instead of the first vertex
ComputeBoundsYFromZero(model) ==
    IF model.ys = <<>> THEN [model EXCEPT !.minY = 0, !.maxY = 0]
    ELSE [model EXCEPT !.minY = Min2(0, SeqMin(model.ys)),
                       !.maxY = Max2(0, SeqMax(model.ys))]

ComputeBoundsY(model) ==
    IF model.ys = <<>> THEN [model EXCEPT !.minY = 0, !.maxY = 0]
    ELSE [model EXCEPT !.minY = SeqMin(model.ys), !.maxY = SeqMax(model.ys)]

\* LoadMaterialTexture for each sub-mesh in turn: a decoded texture gets a
\* fresh name, an unresolved one stays 0.  st = [g, subs].
RECURSIVE LoadSubMeshes(_, _)
LoadSubMeshes(st, resolved) ==
    IF Len(st.subs) = Len(resolved) THEN st
    ELSE LoadSubMeshes(
            IF resolved[Len(st.subs) + 1]
            THEN [g |-> GenTexture(st.g), subs |-> Append(st.subs, st.g.nextTex)]
            ELSE [g |-> st.g, subs |-> Append(st.subs, 0)],
            resolved)

\* LoadOBJModel on a successful import r: [g, model]
LoadOBJModel(g, model, r) ==
    LET st == LoadSubMeshes([g |-> g, subs |-> <<>>], r.tex)
    IN  [g |-> st.g,
         model |-> ComputeBoundsY([model EXCEPT !.ys = r.ys, !.subMeshes = st.subs])]

\* the fallback is never assigned
EnsureTexturesSkipped(model, fallbackTex) == model

EnsureTextures(model, fallbackTex) ==
    [model EXCEPT !.subMeshes =
        [i \in 1..Len(@) |-> IF @[i] = 0 THEN fallbackTex ELSE @[i]]]

InitializeModelGL(model) == [model EXCEPT !.vao = TRUE]

\* the Load lambda of LoadAll: st = [g, models]
Load(st, name, r, whiteTex) ==
    IF ~r.ok THEN st
    ELSE LET l == LoadOBJModel(st.g, st.models[name], r)
         IN  [g |-> l.g,
              models |-> [st.models EXCEPT
                            ![name] = InitializeModelGL(EnsureTextures(l.model, whiteTex))]]

RECURSIVE LoadModels(_, _, _, _)
LoadModels(st, i, import, whiteTex) ==
    IF i > Len(LoadedModels) THEN st
    ELSE LET next == Load(st, LoadedModels[i], import[LoadedModels[i]], whiteTex)
         IN  \* a failed import leaves the models and the GL names as they were
             IF next = st THEN LoadModels(st, i + 1, import, whiteTex)
             ELSE LoadModels(next, i + 1, import, whiteTex)

\* CreateProceduralMeshes: the ground quad and the package cuboid (s = 0.35)
FieldYs == <<0, 0, 0, 0>>
PackageYs ==
    LET s == (35 * HScale) \div 100
        side == <<-s, -s, s, s>>
    IN  side \o side \o side \o side \o <<s, s, s, s>> \o <<-s, -s, -s, -s>>

\* one procedural mesh: vertices, one sub-mesh with the decoded texture or
\* the white one, then InitializeModelGL.  st = [g, models]
MakeProcedural(st, name, ys, decoded, whiteTex) ==
    LET g2 == IF decoded THEN GenTexture(st.g) ELSE st.g
        tex == IF decoded THEN st.g.nextTex ELSE whiteTex
    IN  [g |-> g2,
         models |-> [st.models EXCEPT
                       ![name] = InitializeModelGL(
                                    [@ EXCEPT !.ys = ys, !.subMeshes = <<tex>>])]]

CreateProceduralMeshes(st, o, whiteTex) ==
    MakeProcedural(MakeProcedural(st, "field", FieldYs, o.fieldTex, whiteTex),
                   "package", PackageYs, o.packageTex, whiteTex)

\* ------------------------------------------------------ ComputeTangents
\* A mesh as ComputeTangents reads it: vertices, texCoords, normals (small
\* whole coordinates, so every binary32 operation below is exact) and the
\* 0-based index list.  The sums are kept in halves (TanUnit), which holds
\* 1/det for the determinants of the unit UV square.  A normalized vector is
\* kept as its direction; normalizing the zero vector gives NaN.
TanUnit == 2
Zero3 == <<0, 0, 0>>
Add3(a, b) == <<a[1] + b[1], a[2] + b[2], a[3] + b[3]>>
Sub3(a, b) == <<a[1] - b[1], a[2] - b[2], a[3] - b[3]>>
Scale3(k, a) == <<k * a[1], k * a[2], k * a[3]>>
Dot3(a, b) == a[1] * b[1] + a[2] * b[2] + a[3] * b[3]
Cross3(a, b) == <<a[2] * b[3] - a[3] * b[2],
                  a[3] * b[1] - a[1] * b[3],
                  a[1] * b[2] - a[2] * b[1]>>

RECURSIVE Gcd(_, _)
Gcd(a, b) == IF b = 0 THEN a ELSE Gcd(b, a % b)

Given(v) == [kind |-> "given", v |-> v]
NaN3 == [kind |-> "nan", v |-> Zero3]
Normalize(v) ==
    IF v = Zero3 THEN NaN3
    ELSE LET g == Gcd(Gcd(Abs(v[1]), Abs(v[2])), Abs(v[3]))
         IN  [kind |-> "unit", v |-> <<v[1] \div g, v[2] \div g, v[3] \div g>>]

FallbackTangent == Given(<<1, 0, 0>>)
FallbackBitangent == Given(<<0, 1, 0>>)

UVOf(model, i) ==
    IF i < Len(model.texCoords) THEN model.texCoords[i + 1] ELSE <<0, 0>>
NormalOf(model, v) ==
    IF v < Len(model.normals) THEN model.normals[v + 1] ELSE <<0, 0, 1>>

\* the first loop's body for the triangle at index position i:
\* acc = [t, b], the sums so far, in halves
AddTriangle(acc, model, i) ==
    LET n == Len(model.vertices)
        i0 == model.indices[i + 1]
        i1 == model.indices[i + 2]
        i2 == model.indices[i + 3]
    IN  IF i0 >= n \/ i1 >= n \/ i2 >= n THEN acc
        ELSE LET e1 == Sub3(model.vertices[i1 + 1], model.vertices[i0 + 1])
                 e2 == Sub3(model.vertices[i2 + 1], model.vertices[i0 + 1])
                 dUV1 == <<UVOf(model, i1)[1] - UVOf(model, i0)[1],
                           UVOf(model, i1)[2] - UVOf(model, i0)[2]>>
                 dUV2 == <<UVOf(model, i2)[1] - UVOf(model, i0)[1],
                           UVOf(model, i2)[2] - UVOf(model, i0)[2]>>
                 det == dUV1[1] * dUV2[2] - dUV2[1] * dUV1[2]
                 f == TanUnit \div det
                 tangent == Scale3(f, Sub3(Scale3(dUV2[2], e1), Scale3(dUV1[2], e2)))
                 bitangent == Scale3(f, Add3(Scale3(-dUV2[1], e1), Scale3(dUV1[1], e2)))
                 hit == {i0 + 1, i1 + 1, i2 + 1}
                 \* += once per corner, so a repeated index adds more than once
                 times(v) == Cardinality({c \in 1..3 : model.indices[i + c] + 1 = v})
             IN  IF det = 0 THEN acc
                 ELSE [t |-> [v \in 1..n |-> IF v \in hit
                                              THEN Add3(acc.t[v], Scale3(times(v), tangent))
                                              ELSE acc.t[v]],
                       b |-> [v \in 1..n |-> IF v \in hit
                                              THEN Add3(acc.b[v], Scale3(times(v), bitangent))
                                              ELSE acc.b[v]]]

RECURSIVE AddTriangles(_, _, _)
AddTriangles(acc, model, i) ==
    IF i + 2 >= Len(model.indices) THEN acc
    ELSE LET next == AddTriangle(acc, model, i)
         IN  IF next = acc THEN AddTriangles(acc, model, i + 3)
             ELSE AddTriangles(next, model, i + 3)

\* the fallback is never taken
FinishVertexNoFallback(n, t, b) ==
    LET o == Normalize(Sub3(t, Scale3(Dot3(n, t), n)))
    IN  [tangent |-> o,
         bitangent |-> IF b = Zero3
                       THEN (IF o.kind = "nan" THEN NaN3 ELSE Normalize(Cross3(n, o.v)))
                       ELSE Normalize(b)]

\* the second loop's body: normal n, accumulated tangent t and bitangent b
FinishVertex(n, t, b) ==
    IF t = Zero3
    THEN [tangent |-> FallbackTangent, bitangent |-> FallbackBitangent]
    ELSE LET o == Normalize(Sub3(t, Scale3(Dot3(n, t), n)))
         IN  [tangent |-> o,
              bitangent |-> IF b = Zero3
                            THEN (IF o.kind = "nan" THEN NaN3
                                  ELSE Normalize(Cross3(n, o.v)))
                            ELSE Normalize(b)]

Finish(acc, model) ==
    LET n == Len(model.vertices)
        done == [v \in 1..n |-> FinishVertex(NormalOf(model, v - 1), acc.t[v], acc.b[v])]
    IN  [tangents |-> [v \in 1..n |-> done[v].tangent],
         bitangents |-> [v \in 1..n |-> done[v].bitangent]]

\* the early return for a mesh without a triangle is left out
ComputeTangentsNoReturn(model) ==
    LET zeros == [v \in 1..Len(model.vertices) |-> Zero3]
    IN  Finish(AddTriangles([t |-> zeros, b |-> zeros], model, 0), model)

\* the tangents and bitangents ComputeTangents leaves in the model
ComputeTangents(model) ==
    LET zeros == [v \in 1..Len(model.vertices) |-> Zero3]
    IN  IF Len(model.indices) < 3 \/ model.vertices = <<>>
        THEN [tangents |-> [v \in 1..Len(model.vertices) |-> Given(Zero3)],
              bitangents |-> [v \in 1..Len(model.vertices) |-> Given(Zero3)]]
        ELSE Finish(AddTriangles([t |-> zeros, b |-> zeros], model, 0), model)

\* ------------------------------------------------------ scene generation
\* The random samples GenerateScene draws are an input: Sample(s, i, t) is
\* the t-th position posDist yields for house i under sample stream s.
LatticeX == <<0, 20, 40, -20, -40>>
LatticeZ == <<25, 45, -20, -40>>
Lattice(i) == [x |-> LatticeX[((i - 1) % 5) + 1] * HScale,
               z |-> LatticeZ[((i - 1) \div 5) + 1] * HScale]

StreamIds == {"spread", "retry", "crowded"}
\* a stream by name; "stall", "edge" and "rim" streams also name the house
\* they bear on and, for "stall", how many of its samples are unusable
Named(n) == [name |-> n, house |-> 0, rejects |-> 0]

\* an unusable sample: next to the origin, or where the house before stands
Reject(i, t) ==
    IF t % 2 = 1 THEN [x |-> HScale, z |-> HScale]
    ELSE IF i > 1 THEN Lattice(i - 1) ELSE [x |-> 0, z |-> 5 * HScale]

Sample(s, i, t) ==
    CASE s.name = "spread" -> Lattice(i)
      [] s.name = "retry" ->
            IF t = 1 THEN [x |-> HScale, z |-> HScale]
            ELSE IF t = 2 THEN (IF i > 1 THEN Lattice(i - 1) ELSE [x |-> 0, z |-> 5 * HScale])
            ELSE Lattice(i)
      [] s.name = "crowded" ->
            IF i = 2 THEN [x |-> HScale, z |-> 25 * HScale] ELSE Lattice(i)
      [] s.name = "stall" ->
            IF i = s.house /\ t <= s.rejects THEN Reject(i, t) ELSE Lattice(i)
      [] s.name = "edge" ->
            \* exactly 8 from the house before
            IF i = s.house /\ t = 1
            THEN [x |-> Lattice(i - 1).x + HouseSpacing, z |-> Lattice(i - 1).z]
            ELSE Lattice(i)
      [] s.name = "rim" ->
            \* exactly 10 from the origin, then a millimetre more
            IF i = s.house /\ t = 1 THEN [x |-> CenterClear, z |-> 0]
            ELSE IF i = s.house /\ t = 2 THEN [x |-> 0, z |-> CenterClear + 1]
            ELSE Lattice(i)

\* glm::length(vec2(p.x, p.z)) > 10
FarFromCenter(p) ==
    \/ Abs(p.x) > CenterClear
    \/ Abs(p.z) > CenterClear
    \/ p.x * p.x + p.z * p.z > CenterClear * CenterClear

\* glm::distance(p, h) < 8
TooClose(p, h) ==
    /\ Abs(p.x - h.x) < HouseSpacing
    /\ Abs(p.z - h.z) < HouseSpacing
    /\ (p.x - h.x) * (p.x - h.x) + (p.z - h.z) * (p.z - h.z) < HouseSpacing * HouseSpacing

SampleOk(p, placed) ==
    /\ FarFromCenter(p)
    /\ \A k \in 1..Len(placed) : ~TooClose(p, placed[k])

\* when every try fails the first sample is kept, not the last
PickPositionKeepsFirst(s, i, placed) ==
    LET ok == {t \in 1..maxTries : SampleOk(Sample(s, i, t), placed)}
        t == IF ok = {} THEN 1 ELSE CHOOSE a \in ok : \A b \in ok : a <= b
    IN  Sample(s, i, t)

\* the tries loop: the first accepted sample, or the last one drawn
PickPosition(s, i, placed) ==
    LET ok == {t \in 1..maxTries : SampleOk(Sample(s, i, t), placed)}
        t == IF ok = {} THEN maxTries ELSE CHOOSE a \in ok : \A b \in ok : a <= b
    IN  Sample(s, i, t)

\* inst.position.y += (-minY) * scale.y + 0.01, scale in tenths
SnapToGround(y, model, scale10) == y + ((-model.minY) * scale10) \div 10 + HScale \div 100

RECURSIVE PlaceHouses(_, _, _, _)
PlaceHouses(s, i, placed, houseModel) ==
    IF Len(placed) = houseCount THEN placed
    ELSE LET p == PickPosition(s, i, placed)
         IN  PlaceHouses(s, i + 1,
                Append(placed, [model |-> "house", x |-> p.x, z |-> p.z,
                                y |-> SnapToGround(0, houseModel, 16),
                                radius |-> HouseRadius, delivered |-> FALSE,
                                tint |-> White]),
                houseModel)

Decoration(s, i, ms) ==
    LET name == IF i % 2 = 0 THEN "decor1" ELSE "decor2"
    IN  [model |-> name,
         x |-> ((i * 3) - 45) * HScale, z |-> 35 * HScale,
         y |-> SnapToGround(0, ms[name], 10),
         sway |-> IF i % 3 = 0 THEN 3 ELSE 0]

\* at = -1: the instance sits at its base position; at = t: it sits where
\* the closed-form drift of Update puts it for m_time = t.
CloudAt(i) ==
    [model |-> "cloud", phase |-> i * 7, speed |-> 25 + 15 * (i % 3),
     amplitude |-> 4 + 2 * (i % 2), at |-> -1, tint |-> CloudTint]

BalloonAt(i) == [model |-> "balloon", phase |-> i * 11, at |-> -1]

RestPackage == [model |-> "package", active |-> FALSE, x |-> 0, y |-> 0, z |-> 0,
                vel |-> <<0, 0, 0>>, tint |-> White]

GenerateScene(s, ms) ==
    [houses |-> PlaceHouses(s, 1, <<>>, ms["house"]),
     decorations |-> [i \in 1..decorCount |-> Decoration(s, i - 1, ms)],
     clouds |-> [i \in 1..cloudCount |-> CloudAt(i - 1)],
     balloons |-> [i \in 1..balloonCount |-> BalloonAt(i - 1)],
     packages |-> [i \in 1..poolSize |-> RestPackage]]

\* ---------------------------------------------------------- construction
NullInst == [model |-> "null"]

InitGame ==
    /\ pc = "init"
    /\ exitCode = "none"
    /\ windowOpen = TRUE
    /\ gl = NoGL
    /\ m_program = 0
    /\ m_whiteTex = 0
    /\ m_defaultNormalTex = 0
    /\ m_airshipNormalTex = 0
    /\ models = [m \in ModelNames |-> EmptyModel]
    /\ m_fovDeg = 60
    /\ m_aimMode = FALSE
    /\ m_time = 0
    /\ m_airshipPos = [x |-> 0, y |-> 18 * VScale, z |-> 25 * HScale]
    /\ m_airshipYawDeg = Deg(180)
    /\ m_airshipRollDeg = 0
    /\ m_cameraYawDeg = Deg(180)
    /\ m_airship = NullInst
    /\ m_tree = NullInst
    /\ m_field = NullInst
    /\ m_houses = <<>>
    /\ m_decorations = <<>>
    /\ m_clouds = <<>>
    /\ m_balloons = <<>>
    /\ m_packages = <<>>
    /\ drawn = <<>>
    /\ uniforms = <<>>

Init == InitGame /\ fn = "idle"

\* a shader that failed to build is ignored and the frame loop is entered
InitializeRunsAnyway(o) ==
    /\ pc = "init"
    /\ ~o.shader
    /\ m_whiteTex' = gl.nextTex
    /\ m_defaultNormalTex' = gl.nextTex + 1
    /\ m_program' = 0
    /\ gl' = GenTexture(GenTexture(gl))
    /\ pc' = "events"
    /\ UNCHANGED <<exitCode, windowOpen, m_airshipNormalTex, models, m_fovDeg,
                   m_aimMode, simVars, entityVars, drawn, uniforms, fn>>

\* ------------------------------------------------------------ Initialize
\* o: what the outside world answers during Initialize: whether the shader
\* program links, what each import and each texture decode yields, and the
\* random samples of GenerateScene.
Initialize(o) ==
    /\ pc = "init"
    /\ LET g2 == GenTexture(GenTexture(gl))
           white == gl.nextTex
           defNormal == gl.nextTex + 1
       IN
       /\ m_whiteTex' = white
       /\ m_defaultNormalTex' = defNormal
       /\ IF ~o.shader
          THEN /\ m_program' = 0
               /\ gl' = g2
               /\ pc' = "exit"
               /\ exitCode' = -1
               /\ UNCHANGED <<windowOpen, m_airshipNormalTex, models, m_fovDeg,
                              m_aimMode, simVars, entityVars, drawn, uniforms, fn>>
          ELSE LET loaded == LoadModels([g |-> g2, models |-> models], 1, o.import, white)
                   g3 == IF o.normalTex THEN GenTexture(loaded.g) ELSE loaded.g
                   normalTex == IF o.normalTex THEN loaded.g.nextTex ELSE defNormal
                   headingDeg == WrapDeg(RoundF(m_airshipYawDeg + Deg(yawModelOffsetDeg)))
                   made == CreateProceduralMeshes([g |-> g3, models |-> loaded.models],
                                                  o, white)
                   scene == GenerateScene(Named(o.stream), made.models)
               IN
               /\ m_program' = 1
               /\ gl' = made.g
               /\ models' = made.models
               /\ m_airshipNormalTex' = normalTex
               /\ m_airship' = [model |-> "airship", position |-> m_airshipPos,
                                rotationDeg |-> <<0, headingDeg, 0>>,
                                useNormalMap |-> TRUE]
               /\ m_cameraYawDeg' = headingDeg
               /\ m_tree' = [model |-> "tree"]
               /\ m_field' = [model |-> "field"]
               /\ m_houses' = scene.houses
               /\ m_decorations' = scene.decorations
               /\ m_clouds' = scene.clouds
               /\ m_balloons' = scene.balloons
               /\ m_packages' = scene.packages
               /\ pc' = "events"
               /\ UNCHANGED <<exitCode, windowOpen, m_fovDeg, m_aimMode, m_time,
                              m_airshipPos, m_airshipYawDeg, m_airshipRollDeg, drawn, uniforms, fn>>

\* ---------------------------------------------------------- HandleEvents
\* the scan runs from the last slot down
SpawnPackageHighest(pk, airshipPos) ==
    LET free == {i \in 1..Len(pk) : ~pk[i].active}
    IN  IF free = {} THEN pk
        ELSE LET i == CHOOSE a \in free : \A b \in free : a >= b
             IN  [pk EXCEPT ![i] = [@ EXCEPT !.active = TRUE,
                                             !.x = airshipPos.x,
                                             !.y = airshipPos.y - DropOffset,
                                             !.z = airshipPos.z,
                                             !.vel = <<0, 0, 0>>,
                                             !.tint = White]]

\* the loop does not return after the first inactive slot
SpawnPackageNoReturn(pk, airshipPos) ==
    [i \in 1..Len(pk) |->
        IF pk[i].active THEN pk[i]
        ELSE [pk[i] EXCEPT !.active = TRUE,
                           !.x = airshipPos.x,
                           !.y = airshipPos.y - DropOffset,
                           !.z = airshipPos.z,
                           !.vel = <<0, 0, 0>>,
                           !.tint = White]]

\* the package starts with the airship's forward speed instead of at rest
SpawnPackageThrown(pk, airshipPos) ==
    LET free == {i \in 1..Len(pk) : ~pk[i].active}
    IN  IF free = {} THEN pk
        ELSE LET i == CHOOSE a \in free : \A b \in free : a <= b
             IN  [pk EXCEPT ![i] = [@ EXCEPT !.active = TRUE,
                                             !.x = airshipPos.x,
                                             !.y = airshipPos.y - DropOffset,
                                             !.z = airshipPos.z,
                                             !.vel = <<0, 0, -airshipSpeed * HScale>>,
                                             !.tint = White]]

\* SpawnPackage: the first inactive slot of the pool, if any, is reset
SpawnPackage(pk, airshipPos) ==
    LET free == {i \in 1..Len(pk) : ~pk[i].active}
    IN  IF free = {} THEN pk
        ELSE LET i == CHOOSE a \in free : \A b \in free : a <= b
             IN  [pk EXCEPT ![i] = [@ EXCEPT !.active = TRUE,
                                             !.x = airshipPos.x,
                                             !.y = airshipPos.y - DropOffset,
                                             !.z = airshipPos.z,
                                             !.vel = <<0, 0, 0>>,
                                             !.tint = White]]

Keys == {"Escape", "C", "Space", "Other"}
WheelDeltas == {-1, 1}
Events == {[type |-> "Closed"]}
            \cup {[type |-> "Wheel", delta |-> d] : d \in WheelDeltas}
            \cup {[type |-> "Key", code |-> k] : k \in Keys}

\* one turn of the pollEvent loop; a closed window yields no more events
PollEvent(ev) ==
    /\ pc = "events"
    /\ windowOpen
    /\ windowOpen' = ~(ev.type = "Closed" \/ (ev.type = "Key" /\ ev.code = "Escape"))
    /\ m_fovDeg' = IF ev.type = "Wheel"
                   THEN Clamp(m_fovDeg - ev.delta * 3, FovMin, FovMax)
                   ELSE m_fovDeg
    /\ m_aimMode' = IF ev.type = "Key" /\ ev.code = "C" THEN ~m_aimMode ELSE m_aimMode
    /\ m_packages' = IF ev.type = "Key" /\ ev.code = "Space"
                     THEN SpawnPackage(m_packages, m_airshipPos)
                     ELSE m_packages
    /\ UNCHANGED <<pc, exitCode, glVars, simVars, m_houses, m_decorations, m_clouds,
                   m_balloons, drawn, uniforms, fn>>

\* pollEvent returns nothing: HandleEvents returns
EndEvents ==
    /\ pc = "events"
    /\ pc' = "update"
    /\ UNCHANGED <<exitCode, windowOpen, glVars, m_fovDeg, m_aimMode, simVars,
                   entityVars, drawn, uniforms, fn>>

\* ---------------------------------------------------------------- Update
HeldKeys == {"W", "A", "S", "D", "Q", "E"}
Held(keys, k) == IF k \in keys THEN 1 ELSE 0

\* 400 * cos(2.25 deg * i): the unit vectors of glm::rotate for the yaw
\* values a frame time of 0.025 s or 0.05 s can produce, scaled to the way
\* the airship makes in 1/40 s (airshipSpeed * HScale / TicksPerSecond)
CosTab ==
<<  400,  400,  399,  397,  395,  392,  389,  385,  380,  375,
    370,  363,  356,  349,  341,  333,  324,  314,  304,  294,
    283,  272,  260,  248,  235,  222,  209,  195,  182,  167,
    153,  138,  124,  109,   93,   78,   63,   47,   31,   16,
      0,  -16,  -31,  -47,  -63,  -78,  -93, -109, -124, -138,
   -153, -167, -182, -195, -209, -222, -235, -248, -260, -272,
   -283, -294, -304, -314, -324, -333, -341, -349, -356, -363,
   -370, -375, -380, -385, -389, -392, -395, -397, -399, -400,
   -400, -400, -399, -397, -395, -392, -389, -385, -380, -375,
   -370, -363, -356, -349, -341, -333, -324, -314, -304, -294,
   -283, -272, -260, -248, -235, -222, -209, -195, -182, -167,
   -153, -138, -124, -109,  -93,  -78,  -63,  -47,  -31,  -16,
      0,   16,   31,   47,   63,   78,   93,  109,  124,  138,
    153,  167,  182,  195,  209,  222,  235,  248,  260,  272,
    283,  294,  304,  314,  324,  333,  341,  349,  356,  363,
    370,  375,  380,  385,  389,  392,  395,  397,  399,  400 >>
TabSize == Len(CosTab)
YawStep == Deg360 \div TabSize
CosStep(i) == CosTab[(i % TabSize) + 1]
SinStep(i) == CosStep(i + TabSize - TabSize \div 4)

\* right = (cos yaw, 0, -sin yaw) and forward = (-sin yaw, 0, -cos yaw) is
\* right turned by 90 degrees; the normalised sum of the held directions is
\* right turned by Bearing steps.  f = W - S, r = E - Q.
Bearing(f, r) ==
    LET eighth == TabSize \div 8
    IN  CASE f = 0 /\ r = 1 -> 0
          [] f = 1 /\ r = 1 -> eighth
          [] f = 1 /\ r = 0 -> 2 * eighth
          [] f = 1 /\ r = -1 -> 3 * eighth
          [] f = 0 /\ r = -1 -> 4 * eighth
          [] f = -1 /\ r = -1 -> 5 * eighth
          [] f = -1 /\ r = 0 -> 6 * eighth
          [] f = -1 /\ r = 1 -> 7 * eighth

\* vel * dt in mm for the normalised velocity (zero when the keys cancel)
Displacement(yaw, keys, dt) ==
    LET f == Held(keys, "W") - Held(keys, "S")
        r == Held(keys, "E") - Held(keys, "Q")
        i == yaw \div YawStep + (IF f = 0 /\ r = 0 THEN 0 ELSE Bearing(f, r))
    IN  IF f = 0 /\ r = 0 THEN [x |-> 0, z |-> 0]
        ELSE [x |-> CosStep(i) * dt, z |-> -SinStep(i) * dt]

\* division rounded to nearest, halves away from zero
RoundDiv(n, d) == IF n < 0 THEN -((2 * (-n) + d) \div (2 * d)) ELSE (2 * n + d) \div (2 * d)

\* 1 - exp(-8 dt) in 1/10000 for dt = 0, 0.025, 0.05 s
RollBlend(dt) == CASE dt = 0 -> 0 [] dt = 1 -> 1813 [] OTHER -> 3297

\* glm::mix(roll, target, a) in 1/1000 degree
MixRoll(roll, target, dt) ==
    RoundDiv(roll * (10000 - RollBlend(dt)) + target * RollBlend(dt), 10000)

\* the yaw after a tick: WrapDeg(yaw - turnInput * yawSpeedDeg * dt)
TurnStep(dt) == RoundF((Deg(yawSpeedDeg) * dt) \div TicksPerSecond)
TurnYaw(yaw, turnInput, dt) == WrapDeg(RoundF(yaw - turnInput * TurnStep(dt)))

\* the active test is missing: every slot is integrated
StepPackageAlways(p, dt) ==
    LET vy == p.vel[2] - Gravity100 * dt
        x == p.x + (p.vel[1] * dt) \div TicksPerSecond
        y == p.y + vy * dt
        z == p.z + (p.vel[3] * dt) \div TicksPerSecond
    IN  IF y <= 0
        THEN [p EXCEPT !.vel = <<p.vel[1], vy, p.vel[3]>>, !.x = x, !.y = 0, !.z = z,
                       !.active = FALSE]
        ELSE [p EXCEPT !.vel = <<p.vel[1], vy, p.vel[3]>>, !.x = x, !.y = y, !.z = z]

\* ground impact clamps the altitude but leaves the package active
StepPackageStaysActive(p, dt) ==
    IF ~p.active THEN p
    ELSE LET vy == p.vel[2] - Gravity100 * dt
             x == p.x + (p.vel[1] * dt) \div TicksPerSecond
             y == p.y + vy * dt
             z == p.z + (p.vel[3] * dt) \div TicksPerSecond
         IN  [p EXCEPT !.vel = <<p.vel[1], vy, p.vel[3]>>, !.x = x,
                       !.y = Max2(y, 0), !.z = z]

\* gravity is left out: the velocity stays as it is
StepPackageNoGravity(p, dt) ==
    IF ~p.active THEN p
    ELSE LET y == p.y + p.vel[2] * dt
         IN  IF y <= 0 THEN [p EXCEPT !.y = 0, !.active = FALSE]
             ELSE [p EXCEPT !.y = y]

\* one package under gravity for dt; a package at rest is passed over
StepPackage(p, dt) ==
    IF ~p.active THEN p
    ELSE LET vy == p.vel[2] - Gravity100 * dt
             x == p.x + (p.vel[1] * dt) \div TicksPerSecond
             y == p.y + vy * dt
             z == p.z + (p.vel[3] * dt) \div TicksPerSecond
         IN  IF y <= 0
             THEN [p EXCEPT !.vel = <<p.vel[1], vy, p.vel[3]>>, !.x = x, !.y = 0, !.z = z,
                            !.active = FALSE]
             ELSE [p EXCEPT !.vel = <<p.vel[1], vy, p.vel[3]>>, !.x = x, !.y = y, !.z = z]

\* the altitude test asks for ground contact instead of the 1.5 ceiling
HitsOnGround(p, h) ==
    /\ Abs(p.x - h.x) <= h.radius
    /\ Abs(p.z - h.z) <= h.radius
    /\ (p.x - h.x) * (p.x - h.x) + (p.z - h.z) * (p.z - h.z) <= h.radius * h.radius
    /\ p.y <= 0

\* dist2 <= radius * radius && position.y <= 1.5
Hits(p, h) ==
    /\ Abs(p.x - h.x) <= h.radius
    /\ Abs(p.z - h.z) <= h.radius
    /\ (p.x - h.x) * (p.x - h.x) + (p.z - h.z) * (p.z - h.z) <= h.radius * h.radius
    /\ p.y <= DeliveryCeiling

\* the delivered flag is not looked at
CandidatesAny(p, hs) == {j \in 1..Len(hs) : Hits(p, hs[j])}

\* the houses package p is checked against: the undelivered ones
Candidates(p, hs) == {j \in 1..Len(hs) : ~hs[j].delivered /\ Hits(p, hs[j])}

\* a package delivers to the last house that contains it, not the first
RECURSIVE ResolveFromLastHouse(_, _)
ResolveFromLastHouse(st, i) ==
    LET hit == {k \in i..Len(st.packages) :
                    /\ st.packages[k].active
                    /\ Candidates(st.packages[k], st.houses) # {}}
    IN  IF hit = {} THEN st
        ELSE LET k == CHOOSE a \in hit : \A b \in hit : a <= b
                 c == Candidates(st.packages[k], st.houses)
                 j == CHOOSE a \in c : \A b \in c : a >= b
             IN  ResolveFromLastHouse(
                    [packages |-> [st.packages EXCEPT ![k].active = FALSE],
                     houses |-> [st.houses EXCEPT ![j].delivered = TRUE,
                                                  ![j].tint = DeliveredTint]],
                    k + 1)

\* ResolvePackageCollisions from package i on: st = [packages, houses].
\* The loop passes over the packages that are inactive or reach no house;
\* the next one it acts on is the first active package with a candidate,
\* which delivers to its first candidate house.
RECURSIVE ResolveFrom(_, _)
ResolveFrom(st, i) ==
    LET hit == {k \in i..Len(st.packages) :
                    /\ st.packages[k].active
                    /\ Candidates(st.packages[k], st.houses) # {}}
    IN  IF hit = {} THEN st
        ELSE LET k == CHOOSE a \in hit : \A b \in hit : a <= b
                 c == Candidates(st.packages[k], st.houses)
                 j == CHOOSE a \in c : \A b \in c : a <= b
             IN  ResolveFrom(
                    [packages |-> [st.packages EXCEPT ![k].active = FALSE],
                     houses |-> [st.houses EXCEPT ![j].delivered = TRUE,
                                                  ![j].tint = DeliveredTint]],
                    k + 1)

ResolvePackageCollisions(pk, hs) == ResolveFrom([packages |-> pk, houses |-> hs], 1)

Update(dt, keys) ==
    /\ pc = "update"
    /\ LET turnInput == Held(keys, "D") - Held(keys, "A")
           yaw == TurnYaw(m_airshipYawDeg, turnInput, dt)
           roll == MixRoll(m_airshipRollDeg, -turnInput * maxRollDeg * 1000, dt)
           d == Displacement(yaw, keys, dt)
           pos == [m_airshipPos EXCEPT
                     !.x = Clamp(@ + d.x, -FieldClamp, FieldClamp),
                     !.z = Clamp(@ + d.z, -FieldClamp, FieldClamp)]
           res == ResolvePackageCollisions(
                     [i \in 1..Len(m_packages) |-> StepPackage(m_packages[i], dt)],
                     m_houses)
       IN
       /\ m_time' = m_time + dt
       /\ m_airshipYawDeg' = yaw
       /\ m_cameraYawDeg' = yaw
       /\ m_airshipRollDeg' = roll
       /\ m_airshipPos' = pos
       /\ m_airship' = [m_airship EXCEPT
                          !.position = pos,
                          !.rotationDeg =
                             <<0, WrapDeg(RoundF(yaw + Deg(yawModelOffsetDeg))), roll>>]
       /\ m_clouds' = [i \in 1..Len(m_clouds) |-> [m_clouds[i] EXCEPT !.at = m_time']]
       /\ m_balloons' = [i \in 1..Len(m_balloons) |-> [m_balloons[i] EXCEPT !.at = m_time']]
       /\ m_packages' = res.packages
       /\ m_houses' = res.houses
    /\ pc' = "render"
    /\ UNCHANGED <<exitCode, windowOpen, glVars, m_fovDeg, m_aimMode, m_tree, m_field,
                   m_decorations, drawn, uniforms, fn>>

\* ---------------------------------------------------------------- Render
\* DrawInstance: nothing for a null mesh reference; else the instance's
\* uniforms are set and the normal map is bound on unit 1, then DrawModel
\* binds each sub-mesh's texture and draws it.  A GL call is recorded with
\* the instance it belongs to and the textures bound on units 0 and 1.
DrawInstance(tag, inst, useNormalMap, ms, normalTex, defaultTex) ==
    IF inst.model = "null" THEN <<>>
    ELSE LET unit1 == IF useNormalMap THEN normalTex ELSE defaultTex
         IN  <<[op |-> "glUniform", inst |-> tag, tex |-> 0, unit1 |-> unit1]>>
             \o [j \in 1..Len(ms[inst.model].subMeshes) |->
                    [op |-> "glDrawElements", inst |-> tag,
                     tex |-> ms[inst.model].subMeshes[j], unit1 |-> unit1]]

Tag(kind, i) == [kind |-> kind, idx |-> i]

\* the draw calls of instances lo..hi of one collection, in order
RECURSIVE DrawAll(_, _, _, _, _, _, _, _)
DrawAll(kind, insts, lo, hi, skip, ms, normalTex, defaultTex) ==
    IF lo > hi THEN <<>>
    ELSE IF lo = hi
    THEN (IF lo \in skip THEN <<>>
          ELSE DrawInstance(Tag(kind, lo), insts[lo], FALSE, ms, normalTex, defaultTex))
    ELSE LET mid == (lo + hi) \div 2
         IN  DrawAll(kind, insts, lo, mid, skip, ms, normalTex, defaultTex)
             \o DrawAll(kind, insts, mid + 1, hi, skip, ms, normalTex, defaultTex)

\* the airship is drawn before everything else
RenderCallsAirshipFirst ==
    LET D(kind, insts, skip) ==
            DrawAll(kind, insts, 1, Len(insts), skip, models, m_airshipNormalTex,
                    m_defaultNormalTex)
        resting == {i \in 1..Len(m_packages) : ~m_packages[i].active}
    IN  DrawInstance(Tag("airship", 1), m_airship, m_airship.useNormalMap, models,
                     m_airshipNormalTex, m_defaultNormalTex)
        \o D("field", <<m_field>>, {})
        \o D("house", m_houses, {})
        \o D("decoration", m_decorations, {})
        \o D("tree", <<m_tree>>, {})
        \o D("cloud", m_clouds, {})
        \o D("balloon", m_balloons, {})
        \o D("package", m_packages, resting)

RenderCalls ==
    LET D(kind, insts, skip) ==
            DrawAll(kind, insts, 1, Len(insts), skip, models, m_airshipNormalTex,
                    m_defaultNormalTex)
        resting == {i \in 1..Len(m_packages) : ~m_packages[i].active}
    IN  D("field", <<m_field>>, {})
        \o D("house", m_houses, {})
        \o D("decoration", m_decorations, {})
        \o D("tree", <<m_tree>>, {})
        \o D("cloud", m_clouds, {})
        \o D("balloon", m_balloons, {})
        \o D("package", m_packages, resting)
        \o DrawInstance(Tag("airship", 1), m_airship, m_airship.useNormalMap, models,
                        m_airshipNormalTex, m_defaultNormalTex)

IsDraw(c) == c.op = "glDrawElements"
IsUniform(c) == c.op = "glUniform"

\* Render, and the loop test of Run that follows it
Render ==
    /\ pc = "render"
    /\ LET calls == RenderCalls
       IN  /\ drawn' = SelectSeq(calls, IsDraw)
           /\ uniforms' = SelectSeq(calls, IsUniform)
    /\ pc' = IF windowOpen THEN "events" ELSE "exit"
    /\ exitCode' = IF windowOpen THEN exitCode ELSE 0
    /\ UNCHANGED <<windowOpen, glVars, m_fovDeg, m_aimMode, simVars, entityVars, fn>>

\* ----------------------------------------------------------------- ~Game
\* DestroyModelGL: every sub-mesh texture, then vbo, ebo and vao
DestroyModelGL(st, name) ==
    [g |-> [DeleteTextures(st.g, st.models[name].subMeshes)
                EXCEPT !.bufDeletes[name] = @ + 1],
     models |-> [st.models EXCEPT ![name].vao = FALSE]]

RECURSIVE DestroyModels(_, _)
DestroyModels(st, i) ==
    IF i > Len(AllModels) THEN st
    ELSE IF st.models[AllModels[i]].vao
         THEN DestroyModels(DestroyModelGL(st, AllModels[i]), i + 1)
         ELSE DestroyModels(st, i + 1)

\* main() returns and the Game object is destroyed
Destroy ==
    /\ pc = "exit"
    /\ LET g1 == IF m_program # 0 THEN [gl EXCEPT !.programDeletes = @ + 1] ELSE gl
           st == DestroyModels([g |-> g1, models |-> models], 1)
       IN  /\ gl' = DeleteTextures(st.g,
                        <<m_whiteTex, m_defaultNormalTex, m_airshipNormalTex>>)
           /\ models' = st.models
    /\ pc' = "done"
    /\ UNCHANGED <<exitCode, windowOpen, m_program, m_whiteTex, m_defaultNormalTex,
                   m_airshipNormalTex, m_fovDeg, m_aimMode, simVars, entityVars,
                   drawn, uniforms, fn>>

\* ----------------------------------------------------------------- inputs
\* what an import can yield: failure, or the vertex heights (mm) and, per
\* sub-mesh, whether LoadMaterialTexture resolved a texture
ImportFail == [ok |-> FALSE, ys |-> <<>>, tex |-> <<>>]
ImportPlain == [ok |-> TRUE, ys |-> <<0, 1200, -250>>, tex |-> <<TRUE>>]
ImportBare == [ok |-> TRUE, ys |-> <<300, 100, 900>>, tex |-> <<FALSE>>]
ImportMixed == [ok |-> TRUE, ys |-> <<-40, 0>>, tex |-> <<TRUE, FALSE>>]
LoadedNames == {LoadedModels[i] : i \in 1..Len(LoadedModels)}

PlayAssets(stream) ==
    [shader |-> TRUE, import |-> [m \in LoadedNames |-> ImportPlain],
     normalTex |-> TRUE, fieldTex |-> TRUE, packageTex |-> TRUE, stream |-> stream]
ShaderFails == [PlayAssets("spread") EXCEPT !.shader = FALSE]

AssetOutcomes ==
    [shader : BOOLEAN, import : [LoadedNames -> {ImportFail, ImportMixed}],
     normalTex : BOOLEAN, fieldTex : BOOLEAN, packageTex : BOOLEAN, stream : {"spread"}]

DtSet == 0..DtClamp
KeySets == SUBSET HeldKeys
ActiveCount == Cardinality({i \in 1..Len(m_packages) : m_packages[i].active})
Space == [type |-> "Key", code |-> "Space"]

\* ----------------------------------------------------------------- bounds
MaxTime == 2
MaxActive == 1
MaxWheel == 1
MaxTimeDrop == 76
MaxActiveDrop == 2
MaxTimeFlight == 76
MaxTimePool == 74
MaxVerts == 3
MaxOff == 6
MaxTurns == 2
MaxIndices == 4
MaxTimeRender == 4
MaxActiveRender == 2
MaxRejects == 3
MaxTimeFall == 74
MaxActiveFall == 2

\* ------------------------------------------------- the frame loop, whole
\* every event and every frame time under a few sets of held keys, for a
\* short stretch of simulated time
FrameKeys == {{}, {"W"}, {"A"}, {"D", "E"}, {"S", "Q"}}

Next ==
    \/ \E o \in {PlayAssets("spread"), ShaderFails} : Initialize(o)
    \/ \E ev \in Events :
          /\ ev.type = "Wheel" => Abs(m_fovDeg - ev.delta * 3 - 60) <= 3 * MaxWheel
          /\ ev = Space => ActiveCount < MaxActive
          /\ PollEvent(ev)
    \/ EndEvents
    \/ \E dt \in DtSet, keys \in FrameKeys : m_time + dt <= MaxTime /\ Update(dt, keys)
    \/ Render
    \/ Destroy

Spec == Init /\ [][Next]_vars

\* --------------------------------------------- assets: load, draw, destroy
\* every outcome of every import and decode, then one frame and shutdown
NextAssets ==
    \/ \E o \in AssetOutcomes : Initialize(o)
    \/ PollEvent([type |-> "Closed"])
    \/ EndEvents
    \/ Update(0, {})
    \/ Render
    \/ Destroy

SpecAssets == Init /\ [][NextAssets]_vars

\* ------------------------------------------ drops from a hovering airship
\* the airship stays over house 1; space is pressed in the frames at these
\* times, and the packages fall all the way down under every frame time
DropTimes == {0, 1}

NextDrop ==
    \/ \E s \in {"spread", "crowded"} : Initialize(PlayAssets(s))
    \/ /\ m_time \in DropTimes
       /\ ActiveCount < MaxActiveDrop
       /\ PollEvent(Space)
    \/ EndEvents
    \/ \E dt \in DtSet : m_time + dt <= MaxTimeDrop /\ Update(dt, {})
    \/ Render

SpecDrop == Init /\ [][NextDrop]_vars

\* ------------------------------------------------- flight to the boundary
FlightKeys == {{"W"}, {"W", "E"}}

NextFlight ==
    \/ Initialize(PlayAssets("spread"))
    \/ EndEvents
    \/ \E dt \in DtSet \ {0}, keys \in FlightKeys :
          m_time + dt <= MaxTimeFlight /\ Update(dt, keys)
    \/ Render

SpecFlight == Init /\ [][NextFlight]_vars

\* -------------------------------------------------------- the package pool
\* space is pressed, any number of times, in the frames at these times:
\* the first two frames and the frame in which the first packages have landed
SpawnTimes == {0, DtClamp, 36 * DtClamp}

NextPool ==
    \/ Initialize(PlayAssets("spread"))
    \/ m_time \in SpawnTimes /\ PollEvent(Space)
    \/ EndEvents
    \/ m_time + DtClamp <= MaxTimePool /\ Update(DtClamp, {})
    \/ Render

SpecPool == Init /\ [][NextPool]_vars

\* ------------------------------------------------- mesh helpers on their own
\* LoadOBJModel on every short vertex list, and CreateProceduralMeshes
Heights == {-350, 0, 120, 900}
VertexLists == UNION {[1..n -> Heights] : n \in 0..MaxVerts}
gameVars == <<pc, exitCode, windowOpen, glVars, m_fovDeg, m_aimMode, simVars,
              entityVars, drawn, uniforms>>

InitMesh ==
    /\ InitGame
    /\ fn \in {[op |-> "LoadOBJModel", r |-> [ok |-> TRUE, ys |-> ys, tex |-> <<TRUE>>],
                out |-> <<>>] : ys \in VertexLists}
         \cup {[op |-> "CreateProceduralMeshes",
                o |-> [fieldTex |-> a, packageTex |-> b], out |-> <<>>] :
                    a \in BOOLEAN, b \in BOOLEAN}

ApplyLoadOBJModel ==
    /\ fn.op = "LoadOBJModel"
    /\ fn.out = <<>>
    /\ fn' = [fn EXCEPT !.out = <<LoadOBJModel(NoGL, EmptyModel, fn.r).model>>]
    /\ UNCHANGED gameVars

ApplyCreateProceduralMeshes ==
    /\ fn.op = "CreateProceduralMeshes"
    /\ fn.out = <<>>
    /\ fn' = [fn EXCEPT !.out =
                <<CreateProceduralMeshes([g |-> GenTexture(GenTexture(NoGL)),
                                          models |-> models], fn.o, 1).models>>]
    /\ UNCHANGED gameVars

NextMesh == ApplyLoadOBJModel \/ ApplyCreateProceduralMeshes

SpecMesh == InitMesh /\ [][NextMesh]_vars

\* ------------------------------------------------------ WrapDeg on its own
\* binary32 angles around the multiples of 360, and whole turns k
WrapInputs == {RoundF(k * Deg360 + d) : k \in -2..2, d \in -MaxOff..MaxOff}
                \cup {Deg(180), RoundF(Deg(9) \div 2), -RoundF(Deg(9) \div 2)}

InitWrap ==
    /\ InitGame
    /\ fn \in {[op |-> "WrapDeg", x |-> x, k |-> k, out |-> <<>>] :
                    x \in WrapInputs, k \in -MaxTurns..MaxTurns}

ApplyWrapDeg ==
    /\ fn.op = "WrapDeg"
    /\ fn.out = <<>>
    /\ fn' = [fn EXCEPT !.out = <<WrapDeg(fn.x),
                                   WrapDeg(RoundF(fn.x + fn.k * Deg360))>>]
    /\ UNCHANGED gameVars

SpecWrap == InitWrap /\ [][ApplyWrapDeg]_vars

\* ------------------------------------------- a tick with no key held
\* the airship part of Update (game.cpp 374-413) with no key held, from
\* every yaw WrapDeg hands back, a few rolls and both ends of the field
IdleYaws == {WrapDeg(x) : x \in WrapInputs}
IdleRolls == {-18000, -3297, -1, 0, 5934, 18000}
IdlePlaces == {[x |-> 0, y |-> 18 * VScale, z |-> 25 * HScale],
               [x |-> -FieldClamp, y |-> 18 * VScale, z |-> FieldClamp]}

InitIdle ==
    /\ InitGame
    /\ fn \in {[op |-> "IdleTick", yaw |-> y, roll |-> r, pos |-> p, dt |-> dt,
                out |-> <<>>] :
                    y \in IdleYaws, r \in IdleRolls, p \in IdlePlaces, dt \in DtSet}

ApplyIdleTick ==
    /\ fn.op = "IdleTick"
    /\ fn.out = <<>>
    /\ LET yaw == TurnYaw(fn.yaw, 0, fn.dt)
           d == Displacement(yaw, {}, fn.dt)
       IN  fn' = [fn EXCEPT !.out =
                    <<[yaw |-> yaw,
                       roll |-> MixRoll(fn.roll, 0, fn.dt),
                       pos |-> [fn.pos EXCEPT
                                  !.x = Clamp(@ + d.x, -FieldClamp, FieldClamp),
                                  !.z = Clamp(@ + d.z, -FieldClamp, FieldClamp)]]>>]
    /\ UNCHANGED gameVars

SpecIdle == InitIdle /\ [][ApplyIdleTick]_vars

\* -------------------------------------------------- ComputeTangents alone
\* every index list of up to MaxIndices entries (one value past the last
\* vertex included) and a few of two triangles, over a right triangle in the ground plane cut down to
\* 0..3 vertices, with unit-square, mirrored, identical, short and missing
\* UV arrays, and with the normals present or absent
Corner == <<<<0, 0, 0>>, <<1, 0, 0>>, <<0, 0, 1>>>>
CornerUVs == {<<<<0, 0>>, <<1, 0>>, <<0, 1>>>>,
              <<<<0, 0>>, <<0, 1>>, <<1, 0>>>>,
              <<<<1, 1>>, <<1, 1>>, <<1, 1>>>>,
              <<<<0, 0>>, <<0, 0>>, <<0, 0>>>>,
              <<<<1, 1>>>>,
              <<>>}
CornerNormals == {<<<<0, 1, 0>>, <<0, 1, 0>>, <<1, 0, 0>>>>, <<>>}
TwoTriangles == {<<0, 1, 2, 0, 2, 1>>, <<0, 1, 2, 2, 1, 0>>, <<0, 1, 2, 1, 2, 3>>,
                 <<0, 0, 1, 0, 1, 2, 2>>}
IndexLists == UNION {[1..k -> 0..Len(Corner)] : k \in 0..MaxIndices} \cup TwoTriangles
TanMeshes ==
    {[vertices |-> SubSeq(Corner, 1, n), texCoords |-> uv, normals |-> nm,
      indices |-> ix] :
        n \in 0..Len(Corner), uv \in CornerUVs, nm \in CornerNormals,
        ix \in IndexLists}

InitTangents ==
    /\ InitGame
    /\ fn \in {[op |-> "ComputeTangents", model |-> m, out |-> <<>>] : m \in TanMeshes}

ApplyComputeTangents ==
    /\ fn.op = "ComputeTangents"
    /\ fn.out = <<>>
    /\ fn' = [fn EXCEPT !.out = <<ComputeTangents(fn.model)>>]
    /\ UNCHANGED gameVars

SpecTangents == InitTangents /\ [][ApplyComputeTangents]_vars

\* ------------------------------------------------------- frames, drawn
\* a few frames with up to MaxActiveRender packages in the air over a scene
\* in which the cloud model failed to import, and DrawInstance itself on an
\* instance without a mesh and on two with one
RenderAssets == [PlayAssets("spread") EXCEPT !.import["cloud"] = ImportFail]
DrawInputs == {NullInst, [model |-> "tree"], [model |-> "cloud"]}

InitRender ==
    /\ InitGame
    /\ fn \in {[op |-> "DrawInstance", inst |-> i, out |-> <<>>] : i \in DrawInputs}

ApplyDrawInstance ==
    /\ fn.op = "DrawInstance"
    /\ fn.out = <<>>
    /\ pc = "render"
    /\ fn' = [fn EXCEPT !.out = <<DrawInstance(Tag("probe", 1), fn.inst, FALSE, models,
                                                m_airshipNormalTex, m_defaultNormalTex)>>]
    /\ UNCHANGED gameVars

NextRender ==
    \/ Initialize(RenderAssets)
    \/ ActiveCount < MaxActiveRender /\ PollEvent(Space)
    \/ EndEvents
    \/ \E dt \in DtSet : m_time + dt <= MaxTimeRender /\ Update(dt, {})
    \/ Render
    \/ ApplyDrawInstance

SpecRender == InitRender /\ [][NextRender]_vars

\* ------------------------------------------------- GenerateScene alone
\* the house loop under streams that hand one house a run of unusable
\* samples (none, a few, all but the last, all of them), a sample exactly 8
\* from the house before, or one exactly 10 from the origin
Streams ==
    {Named(n) : n \in StreamIds}
        \cup {[name |-> "stall", house |-> h, rejects |-> n] :
                h \in 1..houseCount, n \in (0..MaxRejects) \cup {maxTries - 1, maxTries}}
        \cup {[name |-> "edge", house |-> h, rejects |-> 0] : h \in 2..houseCount}
        \cup {[name |-> "rim", house |-> h, rejects |-> 0] : h \in 1..houseCount}

InitScene ==
    /\ InitGame
    /\ fn \in {[op |-> "GenerateScene", stream |-> s, out |-> <<>>] : s \in Streams}

ApplyGenerateScene ==
    /\ fn.op = "GenerateScene"
    /\ fn.out = <<>>
    /\ fn' = [fn EXCEPT !.out = <<GenerateScene(fn.stream, models)>>]
    /\ UNCHANGED gameVars

SpecScene == InitScene /\ [][ApplyGenerateScene]_vars

\* ------------------------------------------------- packages until they stop
\* packages dropped in the first frame over house 1; a frame takes no time
\* or the longest time the clamp lets through.
\* Run goes from HandleEvents to Update to Render without a wait, so the
\* steps of the loop are taken when they can be; that frames with dt > 0
\* keep coming is the premise under which a package is said to stop.
NextFall ==
    \/ Initialize(PlayAssets("spread"))
    \/ m_time = 0 /\ ActiveCount < MaxActiveFall /\ PollEvent(Space)
    \/ EndEvents
    \/ \E dt \in {0, DtClamp} : m_time + dt <= MaxTimeFall /\ Update(dt, {})
    \/ Render

\* an Update step with dt > 0, told by what it does to pc and the clock,
\* and the states in which one can be taken
PositiveTick == pc = "update" /\ pc' = "render" /\ m_time' > m_time
TickPossible == pc = "update" /\ m_time + DtClamp <= MaxTimeFall

\* the last conjunct is SF_vars of the Update steps with dt > 0, written out
SpecFall ==
    /\ Init
    /\ [][NextFall]_vars
    /\ WF_vars(EndEvents)
    /\ WF_vars(Render)
    /\ (<>[](~TickPossible) \/ []<><<PositiveTick>>_vars)

\* =============================================================== properties
Slots == 1..Len(m_packages)
Houses == 1..Len(m_houses)
OverCentre(p, h) == p.x = h.x /\ p.z = h.z
WithinRadius(p, h) ==
    (p.x - h.x) * (p.x - h.x) + (p.z - h.z) * (p.z - h.z) <= h.radius * h.radius
\* a slot that has been dropped and has fallen for some time
HasFallen(p) == p.vel[2] < 0

\* C1: once a house is delivered, every later step keeps its delivered flag
\* true and its tint at (0.7, 1.0, 0.7), and a package is taken out of the
\* air above the ground only by a house that was not delivered before the
\* step: as many packages stop above ground as houses become delivered, each
\* of them within the radius of a house that became delivered in that step.
DeliveryMonotonic ==
    [][ /\ \A j \in Houses :
              m_houses[j].delivered =>
                 /\ m_houses[j].tint = DeliveredTint
                 /\ m_houses'[j].delivered
                 /\ m_houses'[j].tint = DeliveredTint
        /\ LET stopped == {i \in Slots : /\ m_packages[i].active
                                         /\ ~m_packages'[i].active
                                         /\ m_packages'[i].y > 0}
               fresh == {j \in Houses : ~m_houses[j].delivered /\ m_houses'[j].delivered}
           IN  /\ Cardinality(stopped) = Cardinality(fresh)
               /\ \A i \in stopped :
                     \E j \in fresh : WithinRadius(m_packages'[i], m_houses'[j])
      ]_vars

\* a later package has fallen through the delivery zone of a delivered house
\* and come to rest on the ground inside its radius
DeliveredHousePassedOver ==
    \E j \in Houses, i \in Slots :
        /\ m_houses[j].delivered
        /\ m_houses[j].tint = DeliveredTint
        /\ ~m_packages[i].active
        /\ HasFallen(m_packages[i])
        /\ m_packages[i].y = 0
        /\ WithinRadius(m_packages[i], m_houses[j])

\* C3: an Update tick leaves every slot of the pool whose active flag is
\* false exactly as it was: position, velocity and flag.
RestUntouched ==
    [][ pc = "update" =>
          \A i \in Slots : ~m_packages[i].active => m_packages'[i] = m_packages[i] ]_vars

\* a package that stopped with its last velocity still stored, and a clock
\* that has run on since: ticks with dt > 0 have passed over it at rest
RestedThroughTicks ==
    \E i \in Slots :
        /\ ~m_packages[i].active
        /\ HasFallen(m_packages[i])
        /\ pc = "render"
        /\ (m_time - 1) * Gravity100 > -m_packages[i].vel[2]

\* C5: a package dropped from the hovering airship over the centre of a house
\* of radius 2.5 never reads an altitude <= 1.5 at the end of a tick without
\* that house being delivered, and the time it has been falling (its speed
\* over 9.81, in 1/40 s) never exceeds sqrt(2 h / 9.81) by more than one tick
\* of 0.05 s,
\* h being the height it was dropped from; at rest it keeps the time it
\* stopped at.
DropDelivers ==
    \A i \in Slots, j \in Houses :
        LET p == m_packages[i]
            h == m_houses[j]
            ticks == (-p.vel[2]) \div Gravity100
            dropHeight == m_airshipPos.y - DropOffset
            late == ticks - DtClamp
        IN  (HasFallen(p) /\ OverCentre(p, h) /\ h.radius = HouseRadius) =>
               /\ p.y <= DeliveryCeiling => h.delivered
               /\ late > 0 => late * late * Gravity100 <= 2 * dropHeight

\* the first package was taken out of the air between the ground and 1.5 by
\* the house it was dropped over
DropDelivered ==
    \E i \in Slots, j \in Houses :
        /\ ~m_packages[i].active
        /\ HasFallen(m_packages[i])
        /\ m_packages[i].y > 0
        /\ m_packages[i].y <= DeliveryCeiling
        /\ OverCentre(m_packages[i], m_houses[j])
        /\ m_houses[j].delivered

\* C4: the airship's X and Z lie within [-54, 54], 0.9 of the field's half
\* extent of 60, after every Update tick, whatever keys are held and whatever
\* the frame time; the drawn airship instance sits at the same place.
AirshipInField ==
    /\ Abs(m_airshipPos.x) <= FieldClamp
    /\ Abs(m_airshipPos.z) <= FieldClamp
    /\ FieldClamp * 10 = 9 * fieldHalfSize * HScale
    /\ pc \in {"render", "events", "update"} /\ m_time > 0 =>
          m_airship.position = m_airshipPos

\* flying ahead from z = 25 in steps of 0.4 or 0.8 never lands on 54: the
\* airship is there because the clamp put it there
AtFieldEdge ==
    /\ pc = "render"
    /\ m_airshipPos.z = FieldClamp
    /\ m_airshipPos.x = 0

\* C2: a space press on a pool of 40 slots that are all active changes no
\* slot; with an inactive slot, the lowest-index inactive slot becomes active
\* at the airship's position lowered by 2, with zero velocity, and every
\* other slot stays as it was.  (Under SpecPool every step that stays in the
\* polling phase is a space press.)
SpawnFillsLowest ==
    [][ (pc = "events" /\ pc' = "events") =>
          LET free == {i \in Slots : ~m_packages[i].active}
          IN  /\ Len(m_packages) = poolSize
              /\ Len(m_packages') = poolSize
              /\ IF free = {} THEN m_packages' = m_packages
                 ELSE \E i \in free :
                        /\ \A j \in free : i <= j
                        /\ m_packages'[i].active
                        /\ m_packages'[i].x = m_airshipPos.x
                        /\ m_packages'[i].y = m_airshipPos.y - 2 * VScale
                        /\ m_packages'[i].z = m_airshipPos.z
                        /\ m_packages'[i].vel = <<0, 0, 0>>
                        /\ \A k \in Slots \ {i} : m_packages'[k] = m_packages[k]
      ]_vars

\* a slot that had come to rest was handed out again while a higher slot was
\* still in the air and a slot between them stayed at rest
ReusedLowestHole ==
    /\ pc = "events"
    /\ m_time = 36 * DtClamp
    /\ m_packages[1].active /\ m_packages[1].vel = <<0, 0, 0>>
    /\ ~m_packages[2].active /\ HasFallen(m_packages[2])
    /\ m_packages[3].active /\ HasFallen(m_packages[3])

\* C7 as claimed: after scene generation the houses, decorations, clouds,
\* balloons and the package pool change only in the Update phase; the polling
\* phase and the Render phase leave all five unchanged.
OnlyUpdateMutates ==
    [][ (pc = "events" \/ pc = "render") => UNCHANGED entityVars ]_vars

\* C7 as amended: the Render phase leaves all five collections unchanged; the
\* polling phase leaves houses, decorations, clouds and balloons unchanged and
\* changes the package pool in one way only: a space press turns one inactive
\* slot active and leaves every other slot as it was.
PollingOnlySpawns ==
    [][ /\ pc = "render" => UNCHANGED entityVars
        /\ pc = "events" =>
              /\ UNCHANGED <<m_houses, m_decorations, m_clouds, m_balloons>>
              /\ \/ m_packages' = m_packages
                 \/ \E i \in Slots :
                       /\ ~m_packages[i].active
                       /\ m_packages'[i].active
                       /\ \A k \in Slots \ {i} : m_packages'[k] = m_packages[k]
      ]_vars

\* a package put into the pool by a space press, before any Update has moved it
SpawnedWhilePolling ==
    /\ pc = "events"
    /\ m_time = 0
    /\ \E i \in Slots :
          /\ m_packages[i].active
          /\ m_packages[i].y = m_airshipPos.y - DropOffset

\* the model a draw call's instance refers to
ModelOf(tag) ==
    CASE tag.kind = "field" -> m_field.model
      [] tag.kind = "house" -> m_houses[tag.idx].model
      [] tag.kind = "decoration" -> m_decorations[tag.idx].model
      [] tag.kind = "tree" -> m_tree.model
      [] tag.kind = "cloud" -> m_clouds[tag.idx].model
      [] tag.kind = "balloon" -> m_balloons[tag.idx].model
      [] tag.kind = "package" -> m_packages[tag.idx].model
      [] tag.kind = "airship" -> m_airship.model

\* C8: every draw call of a Render pass binds a texture that is not 0 and
\* that glGenTextures has handed out, whatever each import and each decode
\* yielded; it belongs to a model that was imported or generated, and a model
\* whose import failed has no sub-meshes.
DrawnTexturesSet ==
    /\ \A k \in 1..Len(drawn) :
          /\ drawn[k].tex # 0
          /\ drawn[k].tex < gl.nextTex
          /\ pc # "done" => models[ModelOf(drawn[k].inst)].vao
    /\ pc \notin {"init", "done"} =>
          \A m \in ModelNames : ~models[m].vao => models[m].subMeshes = <<>>

\* a frame was drawn in which a sub-mesh showed the white fallback while the
\* import of another model had failed
FallbackDrawn ==
    /\ pc \in {"events", "exit"}
    /\ \E k \in 1..Len(drawn) : drawn[k].tex = m_whiteTex
    /\ \E m \in LoadedNames : ~models[m].vao

\* C6: when the Game object is gone, every texture name created during
\* initialization has been deleted exactly once, and so have the buffers of
\* every model that was uploaded and the shader program.
HandlesDeletedOnce ==
    pc = "done" =>
        /\ \A t \in 1..(gl.nextTex - 1) : gl.texDeletes[t] = 1
        /\ \A m \in ModelNames :
              gl.bufDeletes[m] = IF models[m].subMeshes # <<>> THEN 1 ELSE 0
        /\ gl.programDeletes = IF m_program # 0 THEN 1 ELSE 0

\* minY and maxY are the least and the greatest vertex height, 0 and 0 for
\* a mesh without vertices
ExtentCached(m) ==
    IF m.ys = <<>> THEN m.minY = 0 /\ m.maxY = 0
    ELSE /\ \A i \in 1..Len(m.ys) : m.minY <= m.ys[i] /\ m.ys[i] <= m.maxY
         /\ \E i \in 1..Len(m.ys) : m.ys[i] = m.minY
         /\ \E i \in 1..Len(m.ys) : m.ys[i] = m.maxY

Procedural == {"field", "package"}

\* C9 as claimed: after LoadOBJModel, and after CreateProceduralMeshes for
\* the ground quad and the package cuboid, the cached minY and maxY are the
\* minimum and maximum vertex Y (-0.35 and 0.35 for the cuboid), 0 and 0 for
\* an empty vertex list.
BoundsOnBothPaths ==
    fn.out # <<>> =>
        IF fn.op = "LoadOBJModel" THEN ExtentCached(fn.out[1])
        ELSE \A n \in Procedural : ExtentCached(fn.out[1][n])

\* C9 as amended: after LoadOBJModel the cached minY and maxY are the minimum
\* and maximum vertex Y, 0 and 0 for an empty vertex list;
\* CreateProceduralMeshes fills in the vertices of the ground quad and the
\* package cuboid and leaves minY and maxY as they were before the call.
BoundsOnImport ==
    fn.out # <<>> =>
        IF fn.op = "LoadOBJModel" THEN ExtentCached(fn.out[1])
        ELSE \A n \in Procedural :
                /\ fn.out[1][n].ys # <<>>
                /\ fn.out[1][n].minY = models[n].minY
                /\ fn.out[1][n].maxY = models[n].maxY

\* an import whose lowest and highest vertex are not the first one
ExtentOfImport ==
    /\ fn.out # <<>>
    /\ fn.op = "LoadOBJModel"
    /\ Len(fn.r.ys) >= 3
    /\ fn.out[1].minY < fn.r.ys[1]
    /\ fn.r.ys[1] < fn.out[1].maxY

\* C10: WrapDeg(x) is at least 0 and less than 360 for every binary32 x, the
\* airship's yaw after a tick being WrapDeg of the turned heading; the same
\* holds of WrapDeg(x + 360 k) for every whole number of turns k.
WrapDegInRange ==
    fn.out # <<>> =>
        \A n \in 1..2 : 0 <= fn.out[n] /\ fn.out[n] < Deg360

\* the second half of C10, WrapDeg(x + 360 k) = WrapDeg(x): the sum is
\* rounded to binary32 before WrapDeg sees it
WrapDegPeriodic == fn.out # <<>> => fn.out[2] = fn.out[1]

\* C11: with no movement or turn key held, an Update tick leaves the
\* airship's position and yaw as they were and brings the roll no farther
\* from 0.
IdleTickKeepsPose ==
    fn.out # <<>> =>
        /\ fn.out[1].pos = fn.pos
        /\ fn.out[1].yaw = fn.yaw
        /\ Abs(fn.out[1].roll) <= Abs(fn.roll)

\* the parts of C11 that do hold: position kept, roll no farther from 0
IdleTickKeepsPlace ==
    fn.out # <<>> =>
        /\ fn.out[1].pos = fn.pos
        /\ Abs(fn.out[1].roll) <= Abs(fn.roll)

\* ---- ComputeTangents
Triangles(model) == Len(model.indices) \div 3
SameUVs(model) ==
    \A i, j \in 0..(Len(model.vertices) - 1) : UVOf(model, i) = UVOf(model, j)

\* C12: after ComputeTangents the tangent and the bitangent array are as long
\* as the position array, whatever the index list holds, and a mesh with no
\* triangle has the zero vector in every entry of both.
TangentsSized ==
    fn.out # <<>> =>
        /\ Len(fn.out[1].tangents) = Len(fn.model.vertices)
        /\ Len(fn.out[1].bitangents) = Len(fn.model.vertices)
        /\ Triangles(fn.model) = 0 =>
              \A v \in 1..Len(fn.model.vertices) :
                  /\ fn.out[1].tangents[v] = Given(Zero3)
                  /\ fn.out[1].bitangents[v] = Given(Zero3)

\* a mesh of three vertices with two stray indices and so no triangle
ZeroedWithoutTriangle ==
    /\ fn.out # <<>>
    /\ Len(fn.model.vertices) = 3
    /\ fn.model.indices = <<0, 3>>
    /\ fn.out[1].tangents = <<Given(Zero3), Given(Zero3), Given(Zero3)>>

\* C13 as claimed: a mesh whose UVs are all the same gets the fallback pair
\* at every vertex, whatever its positions, normals and index list.
SameUVsFallBack ==
    (fn.out # <<>> /\ SameUVs(fn.model)) =>
        \A v \in 1..Len(fn.model.vertices) :
            /\ fn.out[1].tangents[v] = FallbackTangent
            /\ fn.out[1].bitangents[v] = FallbackBitangent

\* C13: a mesh with at least one triangle in its index list whose UVs are all
\* the same gets the fallback pair at every vertex.
SameUVsFallBackWithTriangle ==
    (fn.out # <<>> /\ SameUVs(fn.model) /\ Triangles(fn.model) >= 1) =>
        \A v \in 1..Len(fn.model.vertices) :
            /\ fn.out[1].tangents[v] = FallbackTangent
            /\ fn.out[1].bitangents[v] = FallbackBitangent

\* all three UVs at (1,1), one triangle over the three vertices
FellBackOnSameUVs ==
    /\ fn.out # <<>>
    /\ fn.model.texCoords = <<<<1, 1>>, <<1, 1>>, <<1, 1>>>>
    /\ Len(fn.model.vertices) = 3
    /\ fn.model.indices = <<0, 1, 2>>
    /\ fn.out[1].tangents[3] = FallbackTangent

\* ---- draw order
Rank(tag) ==
    CASE tag.kind = "field" -> 1
      [] tag.kind = "house" -> 2
      [] tag.kind = "decoration" -> 3
      [] tag.kind = "tree" -> 4
      [] tag.kind = "cloud" -> 5
      [] tag.kind = "balloon" -> 6
      [] tag.kind = "package" -> 7
      [] tag.kind = "airship" -> 8
Before(a, b) == Rank(a) < Rank(b) \/ (Rank(a) = Rank(b) /\ a.idx < b.idx)
Drawable ==
    {Tag("field", 1), Tag("tree", 1), Tag("airship", 1)}
        \cup {Tag("house", i) : i \in 1..Len(m_houses)}
        \cup {Tag("decoration", i) : i \in 1..Len(m_decorations)}
        \cup {Tag("cloud", i) : i \in 1..Len(m_clouds)}
        \cup {Tag("balloon", i) : i \in 1..Len(m_balloons)}
        \cup {Tag("package", i) : i \in {j \in Slots : m_packages[j].active}}

\* the last Render handled exactly the drawable instances, each once, in the
\* fixed order, and issued its draw calls in that order too
RenderedInOrder ==
    LET all == Drawable
    IN  /\ Len(uniforms) = Cardinality(all)
        /\ \A k \in 1..Len(uniforms) : uniforms[k].inst \in all
        /\ \A k \in 1..(Len(uniforms) - 1) :
              Before(uniforms[k].inst, uniforms[k + 1].inst)
        /\ uniforms[Len(uniforms)].inst = Tag("airship", 1)
        /\ \A k \in 1..Len(drawn) : drawn[k].inst \in all
        /\ \A k \in 1..(Len(drawn) - 1) :
              drawn[k].inst = drawn[k + 1].inst \/ Before(drawn[k].inst, drawn[k + 1].inst)

\* C14: a Render pass handles the instances in the fixed order ground, houses,
\* decorations, tree, clouds, balloons, active packages in pool order, airship
\* last; an inactive package is not drawn; and DrawInstance on an instance
\* without a mesh sets no uniform and issues no draw.
DrawOrderFixed ==
    /\ [][(pc = "render" /\ pc' # "render") => RenderedInOrder']_vars
    /\ [](fn.out # <<>> /\ fn.inst.model = "null" => fn.out[1] = <<>>)

\* a frame was drawn with packages 1 and 2 in the air and the rest of the
\* pool at rest, and DrawInstance was handed an instance without a mesh
DrewTwoPackages ==
    /\ pc = "events"
    /\ Len(uniforms) = houseCount + decorCount + cloudCount + balloonCount + 5
    /\ uniforms[Len(uniforms) - 1].inst = Tag("package", 2)
    /\ uniforms[Len(uniforms) - 2].inst = Tag("package", 1)
    /\ fn.inst.model = "null"
    /\ fn.out = <<<<>>>>

\* C15: when the shader program cannot be built, Initialize returns false
\* with no model loaded, no procedural mesh made and no scene generated; the
\* frame loop is never entered and the process ends with a code other than 0.
ShaderFailureAborts ==
    (pc # "init" /\ m_program = 0) =>
        /\ pc \in {"exit", "done"}
        /\ exitCode = -1
        /\ \A m \in ModelNames :
              /\ ~models[m].vao
              /\ models[m].ys = <<>>
              /\ models[m].subMeshes = <<>>
        /\ m_houses = <<>> /\ m_decorations = <<>> /\ m_clouds = <<>>
        /\ m_balloons = <<>> /\ m_packages = <<>>
        /\ m_airship = NullInst /\ m_tree = NullInst /\ m_field = NullInst
        /\ m_time = 0 /\ drawn = <<>> /\ uniforms = <<>>
        /\ gl.nextTex = 3

\* the process has ended after a shader failure; only the two 1x1 textures
\* were ever made
AbortedOnShader ==
    /\ pc = "done"
    /\ m_program = 0
    /\ exitCode = -1
    /\ m_whiteTex = 1 /\ m_defaultNormalTex = 2

\* ---- ground impact
\* package i is active and this tick's integration takes it to y <= 0
Lands(i) ==
    LET p == m_packages[i]
        dt == m_time' - m_time
    IN  p.active /\ p.y + (p.vel[2] - Gravity100 * dt) * dt <= 0
\* package i lies on the ground where it fell
Landed(i) == ~m_packages[i].active /\ m_packages[i].y = 0 /\ HasFallen(m_packages[i])

\* C16: an active package whose integrated position reaches y <= 0 in an
\* Update tick ends the tick at y = 0 and inactive; no house becomes
\* delivered on its account in that tick or a later one, whatever radius it
\* lies in, and later ticks leave it as it is.
GroundImpactTerminal ==
    [][ pc = "update" =>
          \A i \in Slots :
              /\ Lands(i) => m_packages'[i].y = 0 /\ ~m_packages'[i].active
              /\ Landed(i) => m_packages'[i] = m_packages[i]
              /\ (Lands(i) \/ Landed(i)) =>
                    \A j \in Houses :
                        (~m_houses[j].delivered /\ m_houses'[j].delivered) =>
                            \E k \in Slots \ {i} :
                                /\ m_packages[k].active
                                /\ ~m_packages'[k].active
                                /\ m_packages'[k].y > 0
                                /\ WithinRadius(m_packages'[k], m_houses[j]) ]_vars

\* the first package was taken by the house below, the second fell through
\* the radius of that house to the ground and lies there
SecondPackageLanded ==
    /\ pc = "render"
    /\ ~m_packages[1].active /\ m_packages[1].y > 0 /\ HasFallen(m_packages[1])
    /\ Landed(2)
    /\ \E j \in Houses : m_houses[j].delivered /\ WithinRadius(m_packages[2], m_houses[j])

\* ---- one resolution pass
\* the packages still in the air when this tick's pass starts
InPass == {i \in Slots : m_packages[i].active /\ m_packages'[i].y > 0}
\* the houses that contain package i at the end of the tick's integration
Qualifies(i) ==
    {j \in Houses :
        /\ ~m_houses[j].delivered
        /\ Abs(m_packages'[i].x - m_houses[j].x) <= m_houses[j].radius
        /\ Abs(m_packages'[i].z - m_houses[j].z) <= m_houses[j].radius
        /\ WithinRadius(m_packages'[i], m_houses[j])
        /\ m_packages'[i].y <= DeliveryCeiling}
Taken == {i \in InPass : ~m_packages'[i].active}
Fresh == {j \in Houses : ~m_houses[j].delivered /\ m_houses'[j].delivered}

\* C17: in the resolution pass of a tick each package in the air marks at
\* most one house, the lowest-index house that contains it at altitude <= 1.5
\* and is still undelivered when the package's turn comes, and is deactivated;
\* no house is marked by two packages, the lowest-index package that
\* qualifies gets it, and a package that qualifies only for houses taken
\* before its turn stays active.
ResolveFirstMatch ==
    [][ pc = "update" =>
          \E f \in [Taken -> Houses] :
              LET before(i) == {f[k] : k \in {t \in Taken : t < i}}
              IN  /\ \A i \in Taken :
                        /\ f[i] \in Qualifies(i) \ before(i)
                        /\ \A j \in Qualifies(i) \ before(i) : f[i] <= j
                  /\ \A i, k \in Taken : i # k => f[i] # f[k]
                  /\ Fresh = {f[i] : i \in Taken}
                  /\ \A i \in InPass \ Taken : Qualifies(i) \subseteq before(i)
                  /\ \A j \in Fresh : m_houses'[j].tint = DeliveredTint ]_vars

\* two packages dropped in the same frame reached the house below in the
\* same pass: the first was taken by it, the second is still in the air
SecondStayedActive ==
    /\ pc = "render"
    /\ ~m_packages[1].active /\ m_packages[1].y > 0 /\ HasFallen(m_packages[1])
    /\ m_packages[2].active
    /\ m_packages[2].y = m_packages[1].y
    /\ m_packages[2].vel = m_packages[1].vel
    /\ m_houses[1].delivered /\ ~m_houses[2].delivered

\* ---- house placement
\* sample t for house i is usable: more than 10 from the origin and at
\* least 8 from each of the houses placed before
Usable(hs, i, t) ==
    LET p == Sample(fn.stream, i, t)
        \* the squares are taken only of differences that are small
        beyond(dx, dz, d) == Abs(dx) > d \/ Abs(dz) > d \/ dx * dx + dz * dz > d * d
        atLeast(dx, dz, d) == Abs(dx) >= d \/ Abs(dz) >= d \/ dx * dx + dz * dz >= d * d
    IN  /\ beyond(p.x, p.z, 10 * HScale)
        /\ \A k \in 1..(i - 1) : atLeast(p.x - hs[k].x, p.z - hs[k].z, 8 * HScale)

\* C18: GenerateScene ends with exactly 20 houses, and each stands at the
\* first of its 100 samples that is more than 10 from the origin and at least
\* 8 from every house placed before it, or at the 100th sample when none is.
HousesPlacedBySampling ==
    fn.out # <<>> =>
        LET hs == fn.out[1].houses
        IN  /\ Len(hs) = 20
            /\ \A i \in 1..Len(hs) :
                  LET good == {t \in 1..100 : Usable(hs, i, t)}
                      at(t) == hs[i].x = Sample(fn.stream, i, t).x
                                 /\ hs[i].z = Sample(fn.stream, i, t).z
                  IN  IF good = {} THEN at(100)
                      ELSE \E t \in good : at(t) /\ \A u \in good : t <= u

\* all 100 samples of house 3 were unusable and it stands on the 100th,
\* where house 2 stands
HouseOnLastSample ==
    /\ fn.out # <<>>
    /\ fn.stream = [name |-> "stall", house |-> 3, rejects |-> 100]
    /\ fn.out[1].houses[3].x = fn.out[1].houses[2].x
    /\ fn.out[1].houses[3].z = fn.out[1].houses[2].z
    /\ Len(fn.out[1].houses) = 20

\* ---- every drop ends
\* C19: every package that becomes active is deactivated in the end, by a
\* house or by the ground, as long as ticks with dt > 0 keep coming; a tick
\* with dt = 0 leaves every package and every house as it was.
PackagesComeToRest ==
    /\ \A i \in 1..MaxActiveFall :
          (Len(m_packages) >= i /\ m_packages[i].active)
              ~> (Len(m_packages) >= i /\ ~m_packages[i].active)
    /\ [][(pc = "update" /\ m_time' = m_time) =>
             (m_packages' = m_packages /\ m_houses' = m_houses)]_vars

\* both packages of the first frame have stopped, one in the air over the
\* house that took it and one on the ground
BothDropsEnded ==
    /\ pc = "events"
    /\ m_time > 0
    /\ ~m_packages[1].active /\ HasFallen(m_packages[1]) /\ m_packages[1].y > 0
    /\ ~m_packages[2].active /\ HasFallen(m_packages[2]) /\ m_packages[2].y = 0

====
